---- MODULE Spec2Model ----
(***************************************************************************)
(* PerformanceArena (src/PerformanceArena.ts): an in-process timing        *)
(* recorder.  startStage/endStage measure named stages, markTime logs the  *)
(* cycle, and endStage then either trims the in-memory history (live debug *)
(* mode) or hands a snapshot to the purge callback and clears it.          *)
(*                                                                         *)
(* JavaScript values are modelled as follows.  A number is an integer.     *)
(* `undefined` for an optional number is the empty sequence and a present  *)
(* number v is <<v>> (the event argument of endStage, and the local        *)
(* currentRefTime of endStage).  An Array<number> is a sequence.  The      *)
(* records/cache dictionaries are functions whose DOMAIN is the set of     *)
(* keys that have been assigned.                                           *)
(***************************************************************************)
EXTENDS Integers, Sequences, FiniteSets, TLC

\* ------------------------------------------------------------------ bounds
MaxTime == 2
\* per stage and since the last reset: the startStage calls that took effect
\* plus the cycles recorded from an event (every other cycle uses up a start)
MaxCalls == 3
MaxStages == 2

\* ------------------------------------------------------- program constants
DefaultInMemCycles == 250
SteadyInMemCycles == 1

\* ------------------------------------------------------------------ inputs
\* Names a caller may pass.  An operation reads and writes
\* this.records[name] of its own name only, so the arenas below hold one
\* stage of each kind: "a" is not registered in the arena of "b", "b" is not
\* registered in the arena of "a", and "toString" is registered in neither.
Names == {"a", "b", "toString"}

\* line 47-48: this.records and this.cache are object literals, so a lookup of
\* a name Object.prototype defines yields that inherited member
Inherited == {"toString"}

\* A Stage argument.  type "undefined" stands for a bare string stage and for
\* an object stage without a type: both take the default.
StageLists ==
    { << [name |-> "a", type |-> "undefined"] >>, << [name |-> "b", type |-> "async"] >>,
      << [name |-> "a", type |-> "sync"], [name |-> "a", type |-> "async"] >> }

\* Constructor arguments (skipRecording, inMemCycles, enableLiveDebug, and
\* whether onPurgeCallback is given); inMemCycles 0 also stands for an omitted one.
Configs ==
    { [skip |-> FALSE, mem |-> 2, live |-> TRUE,  cb |-> FALSE],
      [skip |-> TRUE,  mem |-> 0, live |-> TRUE,  cb |-> TRUE],
      [skip |-> FALSE, mem |-> 0, live |-> FALSE, cb |-> TRUE],
      [skip |-> FALSE, mem |-> 2, live |-> FALSE, cb |-> FALSE],
      [skip |-> TRUE,  mem |-> 0, live |-> FALSE, cb |-> TRUE] }

NoEvent == << >>

VARIABLES
    given,            \* the stages argument of the constructor
    clock,            \* the latest reading nowFn() returned
    stages,           \* this.stages
    records,          \* this.records
    cache,            \* this.cache
    skipRecording,    \* this.skipRecording
    enableLiveDebug,  \* this.enableLiveDebug
    inMemCycles,      \* this.inMemCycles
    onPurgeCallback,  \* TRUE iff this.onPurgeCallback is defined
    threw,            \* the constructor raised
    onPurgeCalls,     \* the calls made to onPurgeCallback, in order
    log,              \* history: per name, the cycles markTime pushed since the last reset
    starts,           \* history: per name, the startStage calls that took effect since the last reset
    eventCycles,      \* history: per name, the cycles endStage recorded from an event since the last reset
    last              \* history: the operation that ran last

vars == << given, clock, stages, records, cache, skipRecording, enableLiveDebug,
           inMemCycles, onPurgeCallback, threw, onPurgeCalls, log, starts,
           eventCycles, last >>

\* --------------------------------------------------------------- helpers
\* line 115-116: a stage normalised to {name, type}, type defaulting to sync
NormalizeStage(stage) ==
    [name |-> stage.name,
     type |-> IF stage.type = "undefined" THEN "sync" ELSE stage.type]

\* line 120-124
StageRecord(type) ==
    [currentRefTime |-> IF type = "async" THEN << >> ELSE 0,
     totalCycles |-> 0,
     recentCycles |-> << >>]

\* name is a key of this.records: a stage record was stored under it (line 126)
HasRecord(recs, name) == name \in DOMAIN recs

\* this.records[name] is truthy (lines 60, 73, 117): a stage record, or a
\* member inherited from Object.prototype
IsTruthyRecord(recs, name) == HasRecord(recs, name) \/ name \in Inherited

\* InitializeStage that overwrites an existing record instead of throwing
InitializeStageOverwrite(st, stage, forceInitialize) ==
    LET s == NormalizeStage(stage) IN
    IF st.threw THEN st
    ELSE [stages |-> Append(st.stages, s),
          records |-> (s.name :> StageRecord(s.type)) @@ st.records,
          cache |-> (s.name :> s.type) @@ st.cache,
          threw |-> FALSE]

\* InitializeStage that keeps the record of a stage registered before
InitializeStageKeep(st, stage, forceInitialize) ==
    LET s == NormalizeStage(stage) IN
    IF st.threw THEN st
    ELSE IF IsTruthyRecord(st.records, s.name) /\ ~forceInitialize
    THEN [st EXCEPT !.threw = TRUE]
    ELSE [stages |-> Append(st.stages, s),
          records |-> st.records @@ (s.name :> StageRecord(s.type)),
          cache |-> (s.name :> s.type) @@ st.cache,
          threw |-> FALSE]

\* line 114-128, the body of forEach for one stage; st is the arena's
\* {stages, records, cache} with the flag that the loop has thrown
InitializeStage(st, stage, forceInitialize) ==
    LET s == NormalizeStage(stage) IN
    IF st.threw THEN st
    ELSE IF IsTruthyRecord(st.records, s.name) /\ ~forceInitialize
    THEN [st EXCEPT !.threw = TRUE]
    ELSE [stages |-> Append(st.stages, s),
          records |-> (s.name :> StageRecord(s.type)) @@ st.records,
          cache |-> (s.name :> s.type) @@ st.cache,
          threw |-> FALSE]

RECURSIVE ForEachStage(_, _, _, _)
ForEachStage(st, list, i, forceInitialize) ==
    IF i > Len(list) THEN st
    ELSE ForEachStage(InitializeStage(st, list[i], forceInitialize), list, i + 1,
                      forceInitialize)

\* line 113-133.  forEach visits the elements the list had when it was called,
\* also when the list is this.stages and the body appends to it.
initializePerformanceData(st, list, forceInitialize) ==
    ForEachStage(st, list, 1, forceInitialize)

\* line 51
InMemCyclesOf(liveDebug, arg) ==
    IF liveDebug THEN (IF arg # 0 THEN arg ELSE DefaultInMemCycles)
    ELSE SteadyInMemCycles

\* StartRecord on a record made anew: a start discards the stage's history
StartFreshRecord(record, type, perfNow) ==
    IF type = "sync"
    THEN [currentRefTime |-> perfNow, totalCycles |-> 0, recentCycles |-> << >>]
    ELSE [currentRefTime |-> Append(record.currentRefTime, perfNow),
          totalCycles |-> 0, recentCycles |-> << >>]

\* line 64-68
StartRecord(record, type, perfNow) ==
    IF type = "sync"
    THEN [record EXCEPT !.currentRefTime = perfNow]
    ELSE [record EXCEPT !.currentRefTime = Append(@, perfNow)]

\* ResolveRefTime with the event's timeStamp ignored: the pending start is used
ResolveRefTimePending(record, type, event) ==
    IF type = "sync" THEN << record.currentRefTime >>
    ELSE IF record.currentRefTime = << >> THEN << >>
    ELSE << Head(record.currentRefTime) >>

\* line 77-84: the reference time endStage works with
ResolveRefTime(record, type, event) ==
    IF event # NoEvent THEN event
    ELSE IF type = "sync" THEN << record.currentRefTime >>
    ELSE IF record.currentRefTime = << >> THEN << >>
    ELSE << Head(record.currentRefTime) >>

\* line 83: Array.shift() removes the first element, if any
ShiftRefTime(record, type, event) ==
    IF event = NoEvent /\ type = "async" /\ record.currentRefTime # << >>
    THEN [record EXCEPT !.currentRefTime = Tail(@)]
    ELSE record

\* IsFalsy testing for undefined only: a reference time of 0 passes
IsUndefined(ref) == ref = << >>

\* line 85: !currentRefTime
IsFalsy(ref) == IF ref = << >> THEN TRUE ELSE ref[1] = 0

\* markTime without line 139: the cycle is pushed and not counted
markTimeNoCount(record, refTime, totalTime) ==
    [record EXCEPT !.recentCycles = Append(@, [r |-> refTime, t |-> totalTime])]

\* line 135-140
markTime(record, refTime, totalTime) ==
    [record EXCEPT !.recentCycles = Append(@, [r |-> refTime, t |-> totalTime]),
                   !.totalCycles = @ + 1]

\* line 90-92
ClearRefTime(record, type, event) ==
    IF event = NoEvent /\ type = "sync"
    THEN [record EXCEPT !.currentRefTime = 0]
    ELSE record

\* TrimRecentCycles with pop for shift: the newest entry is evicted
TrimNewest(record, capacity) ==
    IF Len(record.recentCycles) >= capacity
    THEN [record EXCEPT !.recentCycles = SubSeq(@, 1, Len(@) - 1)]
    ELSE record

\* TrimRecentCycles without the shift: nothing is ever evicted
TrimNothing(record, capacity) == record

\* line 95-97
TrimRecentCycles(record, capacity) ==
    IF Len(record.recentCycles) >= capacity
    THEN [record EXCEPT !.recentCycles = Tail(@)]
    ELSE record

\* line 109: JSON.parse(JSON.stringify(record)), a copy built field by field
\* from the numbers of the record
CloneCycles(cycles) == [i \in 1..Len(cycles) |-> [r |-> cycles[i].r, t |-> cycles[i].t]]

Snapshot(record) ==
    [currentRefTime |-> record.currentRefTime,
     totalCycles |-> record.totalCycles,
     recentCycles |-> CloneCycles(record.recentCycles)]

\* PurgeCalls with lines 109 and 110 swapped: the snapshot is taken after the
\* history was cleared
PurgeCallsAfterClear(calls, hasCallback, name, record) ==
    IF hasCallback
    THEN Append(calls, [name |-> name,
                        records |-> Snapshot([record EXCEPT !.recentCycles = << >>])])
    ELSE calls

\* line 109: the calls made to the callback, which is invoked only when defined
PurgeCalls(calls, hasCallback, name, record) ==
    IF hasCallback THEN Append(calls, [name |-> name, records |-> Snapshot(record)])
    ELSE calls

\* PurgeRecord without line 110: the history is kept
PurgeKeep(record) == record

\* line 110
PurgeRecord(record) == [record EXCEPT !.recentCycles = << >>]

\* the stage has a pending reference: a set sync slot or a non-empty queue
HasPending(recs, kinds, name) ==
    /\ HasRecord(recs, name)
    /\ IF kinds[name] = "sync" THEN recs[name].currentRefTime # 0
       ELSE recs[name].currentRefTime # << >>

\* history: the operation, its name, whether it was given an event, and
\* whether the stage had a pending reference when it was called
Op(op, name, event, had) ==
    [op |-> op, name |-> name, ext |-> event # NoEvent, had |-> had]

\* ShouldRecord without the skipRecording test
ShouldRecordAlways(skip, recs, name) == IsTruthyRecord(recs, name)

\* line 60, 73: the guard of startStage and endStage
ShouldRecord(skip, recs, name) == ~skip /\ IsTruthyRecord(recs, name)

\* history: this call is a startStage that took effect directly after a
\* startStage of the same stage that took effect
Again(op, name) ==
    /\ op = "startStage"
    /\ ~skipRecording /\ HasRecord(records, name)
    /\ last.op = "startStage" /\ last.name = name

\* history: the stage, if any, whose startStage took effect on an idle stage
\* directly before recording was disabled, for as long as recording has not
\* been used again since and there was no reset
Held(op, skip) ==
    IF op = "reset" THEN ""
    ELSE IF skipRecording THEN last.held
    ELSE IF op = "setSkipRecording" /\ skip
              /\ last.op = "startStage" /\ HasRecord(records, last.name) /\ ~last.had
    THEN last.name
    ELSE ""

\* history: the call made, with whether it raised
Call(op, name, event, had, raised, skip) ==
    [op |-> op, name |-> name, ext |-> event # NoEvent, had |-> had,
     raised |-> raised, again |-> Again(op, name), held |-> Held(op, skip)]

\* line 28: nowFn() is monotonic, it returns no less than its latest reading
Readings == clock..MaxTime

\* the event argument of endStage: none, or an event with its timeStamp
Events == {NoEvent} \cup { << t >> : t \in 0..MaxTime }

\* an event's timeStamp is a reading of the same clock taken before the call
Earlier(event, perfNow) == IF event = NoEvent THEN TRUE ELSE event[1] <= perfNow

\* ------------------------------------------------------------------ Init
\* line 39-57: the state the constructor leaves
Init ==
    \E list \in StageLists, cfg \in Configs :
        LET st == initializePerformanceData(
                      [stages |-> << >>, records |-> << >>, cache |-> << >>,
                       threw |-> FALSE], list, FALSE)
        IN  /\ given = list
            /\ clock = 0
            /\ stages = st.stages
            /\ records = st.records
            /\ cache = st.cache
            /\ threw = st.threw
            /\ skipRecording = cfg.skip
            /\ enableLiveDebug = cfg.live
            /\ inMemCycles = InMemCyclesOf(cfg.live, cfg.mem)
            /\ onPurgeCallback = cfg.cb
            /\ onPurgeCalls = << >>
            /\ log = [n \in Names |-> << >>]
            /\ starts = [n \in Names |-> 0]
            /\ eventCycles = [n \in Names |-> 0]
            /\ last = [op |-> "new", name |-> "", ext |-> FALSE, had |-> FALSE,
                       raised |-> FALSE, again |-> FALSE, held |-> ""]

\* --------------------------------------------------------------- actions
\* line 61-68 on a name whose record is an inherited member: the member has
\* no currentRefTime, this.cache[name] is not 'sync', and push is called on
\* undefined, which raises a TypeError after the clock was read
StartInherited(name) ==
    /\ last' = Call("startStage", name, NoEvent, FALSE, TRUE, FALSE)
    /\ \E perfNow \in Readings : clock' = perfNow
    /\ UNCHANGED << records, starts >>

\* line 59-70
startStage(name) ==
    /\ ~threw
    /\ IF ShouldRecord(skipRecording, records, name)
       THEN IF HasRecord(records, name)
            THEN /\ last' = Call("startStage", name, NoEvent,
                                 HasPending(records, cache, name), FALSE, FALSE)
                 /\ starts[name] + eventCycles[name] < MaxCalls
                 /\ \E perfNow \in Readings :
                        /\ clock' = perfNow
                        /\ records' = [records EXCEPT ![name] =
                               StartRecord(@, cache[name], perfNow)]
                 /\ starts' = [starts EXCEPT ![name] = @ + 1]
            ELSE StartInherited(name)
       ELSE /\ last' = Call("startStage", name, NoEvent,
                            HasPending(records, cache, name), FALSE, FALSE)
            /\ UNCHANGED << clock, records, starts >>
    /\ UNCHANGED << given, stages, cache, skipRecording, enableLiveDebug, inMemCycles,
                    onPurgeCallback, threw, onPurgeCalls, log, eventCycles >>

\* line 94-100: the stage record after the cycle was marked
AfterCycleRecord(record, live, capacity) ==
    IF live THEN TrimRecentCycles(record, capacity) ELSE PurgeRecord(record)

\* AfterCycleCalls purging in either mode
AfterCycleCallsAlways(calls, live, hasCallback, name, record) ==
    PurgeCalls(calls, hasCallback, name, record)

\* line 94-100: the calls made to the callback after the cycle was marked
AfterCycleCalls(calls, live, hasCallback, name, record) ==
    IF live THEN calls ELSE PurgeCalls(calls, hasCallback, name, record)

\* line 74-101: endStage on a registered stage while recording, with the
\* reading perfNow of line 74
EndRecord(name, event, perfNow) ==
    LET type == cache[name]
        currentRefTime == ResolveRefTime(records[name], type, event)
        shifted == ShiftRefTime(records[name], type, event)
    IN  /\ clock' = perfNow
        /\ IF IsFalsy(currentRefTime)
           THEN /\ records' = [records EXCEPT ![name] = shifted]
                /\ UNCHANGED << onPurgeCalls, log, eventCycles >>
           ELSE LET refTime == currentRefTime[1]
                    marked == markTime(shifted, refTime, perfNow - refTime)
                    cleared == ClearRefTime(marked, type, event)
                IN  /\ event # NoEvent => starts[name] + eventCycles[name] < MaxCalls
                    /\ log' = [log EXCEPT ![name] =
                           Append(@, [r |-> refTime, t |-> perfNow - refTime])]
                    /\ eventCycles' = [eventCycles EXCEPT ![name] =
                           IF event # NoEvent THEN @ + 1 ELSE @]
                    /\ records' = [records EXCEPT ![name] =
                           AfterCycleRecord(cleared, enableLiveDebug, inMemCycles)]
                    /\ onPurgeCalls' = AfterCycleCalls(onPurgeCalls, enableLiveDebug,
                                                       onPurgeCallback, name, cleared)

\* line 74-89 on a name whose record is an inherited member: an event's
\* timeStamp of 0 returns at line 87; otherwise shift (line 83) or push
\* (line 138) is called on undefined, which raises a TypeError
EndInherited(name, event) ==
    /\ last' = Call("endStage", name, event, FALSE,
                    IF event = NoEvent THEN TRUE ELSE event[1] # 0, FALSE)
    /\ \E perfNow \in Readings : Earlier(event, perfNow) /\ clock' = perfNow
    /\ UNCHANGED << records, onPurgeCalls, log, eventCycles >>

\* line 72-102
endStage(name, event) ==
    /\ ~threw
    /\ IF ShouldRecord(skipRecording, records, name)
       THEN IF HasRecord(records, name)
            THEN /\ last' = Call("endStage", name, event,
                                 HasPending(records, cache, name), FALSE, FALSE)
                 /\ \E perfNow \in Readings :
                        /\ Earlier(event, perfNow)
                        /\ EndRecord(name, event, perfNow)
            ELSE EndInherited(name, event)
       ELSE /\ last' = Call("endStage", name, event,
                            HasPending(records, cache, name), FALSE, FALSE)
            /\ UNCHANGED << clock, records, onPurgeCalls, log, eventCycles >>
    /\ UNCHANGED << given, stages, cache, skipRecording, enableLiveDebug,
                    inMemCycles, onPurgeCallback, threw, starts >>

\* line 144-146: the 'reset-performance-data' listener, registered only in
\* live debug mode (line 54-56)
Reset ==
    /\ ~threw
    /\ enableLiveDebug
    /\ 2 * Len(stages) <= MaxStages
    /\ LET st == initializePerformanceData(
                     [stages |-> stages, records |-> records, cache |-> cache,
                      threw |-> FALSE], stages, TRUE)
       IN  /\ stages' = st.stages
           /\ records' = st.records
           /\ cache' = st.cache
           /\ threw' = st.threw
    /\ log' = [n \in Names |-> << >>]
    /\ starts' = [n \in Names |-> 0]
    /\ eventCycles' = [n \in Names |-> 0]
    /\ last' = Call("reset", "", NoEvent,
                    \E n \in DOMAIN records : HasPending(records, cache, n),
                    FALSE, FALSE)
    /\ UNCHANGED << given, clock, skipRecording, enableLiveDebug, inMemCycles,
                    onPurgeCallback, onPurgeCalls >>

\* line 147-149: the 'init-performance-data' listener, registered only in
\* live debug mode (line 54-56)
SetSkipRecording(skip) ==
    /\ ~threw
    /\ enableLiveDebug
    /\ skipRecording' = skip
    /\ last' = Call("setSkipRecording", "", NoEvent, FALSE, FALSE, skip)
    /\ UNCHANGED << given, clock, stages, records, cache, enableLiveDebug, inMemCycles,
                    onPurgeCallback, threw, onPurgeCalls, log, starts, eventCycles >>

Next ==
    \/ \E name \in Names : startStage(name)
    \/ \E name \in Names, event \in Events : endStage(name, event)
    \/ Reset
    \/ \E skip \in BOOLEAN : SetSkipRecording(skip)

Spec == Init /\ [][Next]_vars

\* ================================================================ claims
Registered == DOMAIN records

\* the pending reference of a stage that has one
PendingRef(n) ==
    IF cache[n] = "sync" THEN records[n].currentRefTime
    ELSE Head(records[n].currentRefTime)

LastOf(seq) == seq[Len(seq)]

LastN(seq, k) == SubSeq(seq, Len(seq) - k + 1, Len(seq))

Min(x, y) == IF x <= y THEN x ELSE y

Cycle(refTime, elapsed) == [r |-> refTime, t |-> elapsed]

\* the calls made to the purge callback for stage n
CallsFor(n) == SelectSeq(onPurgeCalls, LAMBDA c : c.name = n)

\* C1: for an async stage, with recording enabled and no external timestamp,
\* every endStage that finds an outstanding start records the cycle
\* {refTime: the oldest outstanding start, elapsed: now - that start} and
\* removes exactly that start from the queue.
C1_AsyncFifo ==
    [][ LET n == last'.name IN
        ( /\ last'.op = "endStage" /\ ~last'.ext
          /\ ~skipRecording /\ HasRecord(records, n)
          /\ cache[n] = "async" /\ records[n].currentRefTime # << >>
          /\ endStage(n, NoEvent) )
        => /\ log'[n] = Append(log[n], Cycle(Head(records[n].currentRefTime),
                                             clock' - Head(records[n].currentRefTime)))
           /\ records'[n].currentRefTime = Tail(records[n].currentRefTime) ]_vars

\* C2: for a sync stage with no pending reference, startStage at clock time s
\* directly followed by endStage (no external timestamp) at clock time e >= s
\* records exactly the cycle {refTime: s, elapsed: e - s} and raises
\* totalCycles by 1, for every s.  (In the state a startStage that took effect
\* leaves, clock is its reading s.)
C2_SyncStartEnd ==
    [][ LET n == last.name IN
        ( /\ last.op = "startStage" /\ ~last.had
          /\ ~skipRecording /\ HasRecord(records, n) /\ cache[n] = "sync"
          /\ endStage(n, NoEvent) )
        => /\ log'[n] = Append(log[n], Cycle(clock, clock' - clock))
           /\ records'[n].totalCycles = records[n].totalCycles + 1 ]_vars

\* C3, as claimed: when endStage is given an external timestamp and the stage
\* has a pending start, the cycle recorded has the pending start as refTime
\* and elapsed = externalTimestamp - refTime.  (Stated for the non-zero
\* timestamps, which line 85 does not take for a missing reference.)
C3_EventIsClosingTime ==
    [][ LET n == last'.name IN
        ( /\ last'.op = "endStage" /\ last'.ext
          /\ ~skipRecording /\ HasPending(records, cache, n) )
        => \A e \in 1..MaxTime :
              endStage(n, << e >>)
              => log'[n] = Append(log[n], Cycle(PendingRef(n), e - PendingRef(n))) ]_vars

\* C3, amended: when endStage is given a non-zero external timestamp and the
\* stage has a pending start, the external timestamp is the reference time:
\* the cycle recorded is {refTime: externalTimestamp, elapsed: now -
\* externalTimestamp}, and the pending start is neither used nor removed.
C3_EventIsRefTime ==
    [][ LET n == last'.name IN
        ( /\ last'.op = "endStage" /\ last'.ext
          /\ ~skipRecording /\ HasPending(records, cache, n) )
        => \A e \in 1..MaxTime :
              endStage(n, << e >>)
              => /\ log'[n] = Append(log[n], Cycle(e, clock' - e))
                 /\ records'[n].totalCycles = records[n].totalCycles + 1
                 /\ records'[n].currentRefTime = records[n].currentRefTime ]_vars

\* an endStage with an event has just recorded a cycle on a stage whose
\* pending start, still there, differs from the event's timeStamp, at a
\* reading later than the timeStamp
C3_Witness ==
    \E n \in Registered :
        /\ last.op = "endStage" /\ last.name = n /\ last.ext /\ last.had
        /\ ~skipRecording
        /\ HasPending(records, cache, n)
        /\ eventCycles[n] >= 1
        /\ LastOf(log[n]).r # PendingRef(n)
        /\ LastOf(log[n]).r + LastOf(log[n]).t = clock
        /\ LastOf(log[n]).t > 0

\* C4, as claimed: endStage on a registered stage with no pending start is a
\* no-op, with or without an external timestamp.
C4_EndWithoutStartNoOp ==
    [][ LET n == last'.name IN
        ( /\ last'.op = "endStage"
          /\ HasRecord(records, n) /\ ~HasPending(records, cache, n) )
        => /\ records' = records
           /\ onPurgeCalls' = onPurgeCalls
           /\ log' = log ]_vars

\* C4, amended: endStage without an external timestamp on a registered stage
\* with no pending start is a no-op: the stage's record (totalCycles,
\* recentCycles, pending reference) is unchanged, no onPurge call fires and
\* nothing is raised.
C4_EndWithoutStartNoEvent ==
    [][ LET n == last'.name IN
        ( /\ last'.op = "endStage" /\ ~last'.ext
          /\ HasRecord(records, n) /\ ~HasPending(records, cache, n) )
        => /\ records' = records
           /\ onPurgeCalls' = onPurgeCalls
           /\ log' = log
           /\ threw' = threw ]_vars

\* an endStage without event has just run, recording enabled, on a stage
\* that had no pending start and had recorded a cycle before
C4_Witness ==
    \E n \in Registered :
        /\ last.op = "endStage" /\ last.name = n /\ ~last.ext /\ ~last.had
        /\ ~skipRecording
        /\ records[n].totalCycles >= 1

\* C5: in live debug mode every stage has recentCycles.length <= inMemCycles
\* in every state between two operations.
C5_RecentWithinCapacity ==
    enableLiveDebug =>
        \A n \in Registered : Len(records[n].recentCycles) <= inMemCycles

\* live debug mode, a stage whose history has been trimmed and is not empty
C5_Witness ==
    /\ enableLiveDebug
    /\ \E n \in Registered :
          /\ records[n].recentCycles # << >>
          /\ Len(records[n].recentCycles) < Len(log[n])

\* C6: in live debug mode with capacity C, after n cycles on a stage since the
\* last reset, recentCycles holds exactly the min(n, C) most recent cycles in
\* completion order.
C6_RecentIsLastMin ==
    enableLiveDebug =>
        \A n \in Registered :
            records[n].recentCycles = LastN(log[n], Min(Len(log[n]), inMemCycles))

\* C7: in steady-state mode, with a purge callback, onPurge has been invoked
\* exactly once for every cycle endStage recorded, and never otherwise, and
\* recentCycles of every stage is empty after every endStage call.
C7_PurgeOncePerCycle ==
    (~enableLiveDebug /\ onPurgeCallback) =>
        /\ \A n \in Names : Len(CallsFor(n)) = Len(log[n])
        /\ \A n \in Registered : records[n].recentCycles = << >>

\* steady-state mode, an endStage has run after two cycles were purged
C7_Witness ==
    /\ ~enableLiveDebug /\ onPurgeCallback
    /\ last.op = "endStage"
    /\ Len(onPurgeCalls) >= 2

\* C8: in steady-state mode the k-th snapshot passed to onPurge for a stage
\* carries totalCycles = k and a recentCycles list of exactly the k-th cycle
\* completed; after the flush the live recentCycles is empty and the live
\* totalCycles is the one of the latest snapshot.
C8_SnapshotOfOneCycle ==
    ~enableLiveDebug =>
        \A n \in Registered :
            LET calls == CallsFor(n) IN
            /\ \A k \in 1..Len(calls) :
                  /\ calls[k].records.totalCycles = k
                  /\ calls[k].records.recentCycles = << log[n][k] >>
            /\ calls # << >> =>
                  /\ records[n].totalCycles = LastOf(calls).records.totalCycles
                  /\ records[n].recentCycles = << >>

\* steady-state mode, the second snapshot of a stage has been delivered
C8_Witness ==
    /\ ~enableLiveDebug
    /\ \E n \in Registered :
          /\ Len(CallsFor(n)) = 2
          /\ CallsFor(n)[2].records.totalCycles = 2
          /\ CallsFor(n)[2].records.recentCycles # CallsFor(n)[1].records.recentCycles

\* C9, as claimed: totalCycles equals the number of start/end pairs completed
\* since the last reset, and never exceeds the number of startStage calls that
\* took effect on the stage since the last reset.
C9_CyclesArePairs ==
    \A n \in Registered :
        /\ records[n].totalCycles = Len(log[n])
        /\ records[n].totalCycles <= starts[n]

\* C9, amended: totalCycles equals the number of cycles endStage recorded on
\* the stage since the last reset, independent of eviction or flushing; the
\* cycles recorded without an external timestamp never exceed the number of
\* startStage calls that took effect since the last reset, while every
\* endStage with a non-zero external timestamp adds a cycle without a start.
C9_CyclesAreRecorded ==
    \A n \in Registered :
        /\ records[n].totalCycles = Len(log[n])
        /\ eventCycles[n] <= records[n].totalCycles
        /\ records[n].totalCycles - eventCycles[n] <= starts[n]

\* a stage with more cycles than starts, some of them evicted or flushed
C9_Witness ==
    \E n \in Registered :
        /\ records[n].totalCycles > starts[n]
        /\ starts[n] >= 1
        /\ records[n].totalCycles > eventCycles[n]
        /\ Len(records[n].recentCycles) < records[n].totalCycles

\* C10: a stage's totalCycles never decreases under startStage, endStage,
\* evictions, purges and skipRecording toggles; only reset lowers it, to 0.
C10_TotalCyclesMonotonic ==
    [][ \A n \in Registered :
           IF last'.op = "reset"
           THEN records'[n].totalCycles = 0
           ELSE records'[n].totalCycles >= records[n].totalCycles ]_vars

\* after a reset, a stage has again completed two cycles, one no longer held
C10_Witness ==
    /\ Len(stages) > Cardinality(Registered)
    /\ \E n \in Registered :
          /\ records[n].totalCycles >= 2
          /\ Len(records[n].recentCycles) < records[n].totalCycles

\* C11: while skipRecording is true, every startStage and endStage, for any
\* name and with or without an event, leaves every stage's state unchanged,
\* calls onPurge for nothing and raises nothing.
C11_SkipRecordingNoOp ==
    [][ (skipRecording /\ last'.op \in {"startStage", "endStage"})
        => /\ records' = records
           /\ cache' = cache
           /\ stages' = stages
           /\ onPurgeCalls' = onPurgeCalls
           /\ log' = log
           /\ ~last'.raised ]_vars

\* recording is disabled and endStage was just called with an event on a
\* registered stage that has a pending reference
C11_Witness ==
    /\ skipRecording
    /\ last.op = "endStage" /\ last.ext /\ last.had
    /\ last.name \in Registered
    /\ HasPending(records, cache, last.name)

\* a stage list that names one stage twice
HasDuplicate(list) ==
    \E i, j \in 1..Len(list) :
        i < j /\ NormalizeStage(list[i]).name = NormalizeStage(list[j]).name

\* the arena as initializePerformanceData finds it
Arena == [stages |-> stages, records |-> records, cache |-> cache, threw |-> FALSE]

\* C12: registering a list in which a name already exists, the same name
\* twice in the constructor's list included, raises without force-reinitialize
\* and does not overwrite the first registration; with force-reinitialize
\* (the reset path) the same registration raises nothing.
C12_DuplicateRaises ==
    /\ threw <=> HasDuplicate(given)
    /\ threw =>
          \A n \in Registered :
              \E i \in 1..Len(given) :
                  /\ NormalizeStage(given[i]) = [name |-> n, type |-> cache[n]]
                  /\ \A j \in 1..(i - 1) : NormalizeStage(given[j]).name # n
    /\ ~threw =>
          /\ initializePerformanceData(Arena, given, FALSE).threw
          /\ ~initializePerformanceData(Arena, stages, TRUE).threw
    /\ last.op = "reset" => ~threw

\* the constructor was given the same name twice and raised
C12_Witness ==
    /\ threw
    /\ HasDuplicate(given)
    /\ Len(stages) < Len(given)

\* every registered stage is as registration leaves it: no cycle counted, no
\* cycle held, no pending reference
AllFresh(recs, kinds) ==
    \A n \in DOMAIN recs :
        /\ recs[n].totalCycles = 0
        /\ recs[n].recentCycles = << >>
        /\ ~HasPending(recs, kinds, n)

\* C13 as stated: after reset every registered stage has totalCycles 0, empty
\* recentCycles and no pending reference, and an endStage issued right after
\* reset, with or without an event, records no cycle.
C13_ResetDiscardsAll ==
    [][ /\ last'.op = "reset" => AllFresh(records', cache')
        /\ (last.op = "reset" /\ last'.op = "endStage") => log' = log ]_vars

\* C13: after reset every registered stage has totalCycles 0, empty
\* recentCycles and no pending reference, whatever state preceded it; the
\* starts made before are discarded, so an endStage without an event issued
\* right after reset records no cycle and leaves every stage as reset left it.
C13_ResetDiscardsStarts ==
    [][ /\ last'.op = "reset" => AllFresh(records', cache')
        /\ (last.op = "reset" /\ last'.op = "endStage" /\ ~last'.ext)
           => /\ log' = log
              /\ AllFresh(records', cache')
              /\ onPurgeCalls' = onPurgeCalls ]_vars

\* a reset has just discarded a pending start and the cycles recorded
C13_Witness ==
    /\ last.op = "reset" /\ last.had
    /\ ~skipRecording
    /\ clock > 0
    /\ Len(stages) > Len(given)
    /\ AllFresh(records, cache)

\* C14: startStage and endStage with a name that was never registered are
\* silent no-ops for every such name: no stage record is created or changed,
\* no onPurge call fires and nothing is raised.
C14_UnregisteredNoOp ==
    [][ (last'.op \in {"startStage", "endStage"} /\ last'.name \notin Registered)
        => /\ records' = records
           /\ cache' = cache
           /\ onPurgeCalls' = onPurgeCalls
           /\ log' = log
           /\ ~last'.raised ]_vars

\* C15, for endStage without an event: every endStage that records a cycle
\* removes exactly one pending reference from that stage (sync: the slot is
\* cleared; async: the oldest start leaves the queue), and every endStage
\* that records no cycle leaves the stage's pending references unchanged, for
\* every start time.
C15_EndConsumesOnePerCycle ==
    [][ \A n \in Registered :
           (last'.op = "endStage" /\ last'.name = n /\ ~last'.ext)
           => IF log'[n] # log[n]
              THEN IF cache[n] = "sync"
                   THEN /\ records[n].currentRefTime # 0
                        /\ records'[n].currentRefTime = 0
                   ELSE /\ records[n].currentRefTime # << >>
                        /\ records'[n].currentRefTime = Tail(records[n].currentRefTime)
              ELSE records'[n].currentRefTime = records[n].currentRefTime ]_vars

\* C16: for a sync stage, a second startStage before any endStage replaces
\* the pending reference: the next endStage without an event records exactly
\* one cycle whose refTime is the time of the latest start, and a further
\* endStage without an event and with no start in between records nothing.
C16_LatestStartWins ==
    [][ \A n \in Registered :
           (cache[n] = "sync" /\ last'.op = "endStage" /\ last'.name = n /\ ~last'.ext)
           => /\ (last.op = "startStage" /\ last.name = n /\ last.again)
                 => /\ log'[n] = Append(log[n], Cycle(clock, clock' - clock))
                    /\ records'[n].totalCycles = records[n].totalCycles + 1
              /\ (last.op = "endStage" /\ last.name = n /\ ~last.ext /\ ~skipRecording)
                 => /\ log' = log
                    /\ records'[n].totalCycles = records[n].totalCycles ]_vars

\* C17: in every state of an arena that was built, also after resets,
\* this.stages holds each stage name at most once and is as long as the list
\* given to the constructor.
C17_StagesUnique ==
    ~threw =>
        /\ ~HasDuplicate(stages)
        /\ Len(stages) = Len(given)

\* C18: in live debug mode eviction removes the oldest entry: between
\* operations, a stage's recentCycles is a contiguous suffix, in completion
\* order, of the cycles recorded on the stage since the last reset.
C18_RecentIsSuffix ==
    enableLiveDebug =>
        \A n \in Registered :
            \E k \in 0..Len(log[n]) : records[n].recentCycles = LastN(log[n], k)

\* live debug mode, three cycles recorded, the two older ones evicted, and
\* the cycle held differs from the one evicted last
C18_Witness ==
    /\ enableLiveDebug
    /\ \E n \in Registered :
          /\ Len(log[n]) >= 3
          /\ records[n].recentCycles = << log[n][Len(log[n])] >>
          /\ log[n][Len(log[n])] # log[n][Len(log[n]) - 1]

\* C19: a pending reference survives a disable/enable toggle: after a
\* startStage that took effect on an idle stage, skipRecording set to true
\* and later back to false with no reset in between, the calls made while
\* disabled leave the stage as it was, and the first endStage without an
\* event after re-enabling records a cycle whose refTime is that start's time.
C19_PendingSurvivesToggle ==
    [][ \A n \in Registered :
           /\ (skipRecording /\ last.held = n /\ last'.held = n)
              => records'[n] = records[n]
           /\ ( /\ ~skipRecording /\ last.op = "setSkipRecording" /\ last.held = n
                /\ last'.op = "endStage" /\ last'.name = n /\ ~last'.ext )
              => /\ log'[n] = Append(log[n], Cycle(clock, clock' - clock))
                 /\ records'[n].totalCycles = records[n].totalCycles + 1 ]_vars

\* C20: the purge mode is fixed at construction and exclusive: enableLiveDebug
\* never changes; in live debug mode no onPurge call is ever made; in
\* steady-state mode no eviction runs, a cycle leaves the history only by the
\* flush, which hands it to the callback first.
C20_ModeExclusive ==
    [][ /\ enableLiveDebug' = enableLiveDebug
        /\ enableLiveDebug => (onPurgeCalls = << >> /\ onPurgeCalls' = << >>)
        /\ ~enableLiveDebug =>
              \A n \in Registered :
                  log'[n] # log[n] =>
                      /\ records'[n].recentCycles = << >>
                      /\ onPurgeCallback =>
                            /\ Len(onPurgeCalls') = Len(onPurgeCalls) + 1
                            /\ LastOf(onPurgeCalls').records.recentCycles
                                   = << LastOf(log'[n]) >> ]_vars

\* live debug mode with a purge callback given: two cycles were recorded,
\* the history holds cycles, and the callback was never called
C20_Witness ==
    /\ enableLiveDebug /\ onPurgeCallback
    /\ onPurgeCalls = << >>
    /\ \E n \in Registered :
          /\ Len(log[n]) >= 2
          /\ Len(records[n].recentCycles) >= 1

====
